---- MODULE Spec2Model ----
(***************************************************************************)
(* A model of next-router-provider: the route-string helpers (findParams,  *)
(* replaceParams, removeParams, routeToString), the navigation adapter     *)
(* (pushRoute / replaceRoute / navigate), the click handler and link       *)
(* builder, the mock router factory, and the hooks (useRouter, useQuery,   *)
(* useRouteParam, usePrefetch) under a RouterContext.                      *)
(*                                                                         *)
(* JavaScript strings are TLA+ strings, read character by character with   *)
(* SubSeq.  A JavaScript object of string properties is the sequence of    *)
(* its <<key, value>> entries in own-property order (the order Object.keys *)
(* gives); `undefined` has a representation of its own for each type.      *)
(***************************************************************************)
EXTENDS Integers, Sequences, FiniteSets, TLC

VARIABLES
    options,    \* the options createMockRouter was called with
    router,     \* the NextRouter in use (the capability handle)
    navs,       \* the navigate() activations, in call order
    calls,      \* the calls the capability received, in call order
    handler,    \* the click handler under test: how it was made, and for what
    click,      \* the click event being dispatched and what its handler did
    nclicks,    \* click events dispatched so far
    direct,     \* direct calls of the router's own methods, in call order
    provided,   \* whether a RouterContext provider is above the calling component
    out         \* the last hook or helper call made directly, and its result

vars == <<options, router, navs, calls, handler, click, nclicks, direct,
          provided, out>>

-----------------------------------------------------------------------------
(* Bounds of the model *)

\* navigate() calls in one behaviour
MaxNavs == 2
\* click events dispatched in one behaviour
MaxClicks == 2
\* direct calls of the mock router's methods in one behaviour
MaxDirect == 2

-----------------------------------------------------------------------------
(* Values *)

\* `undefined` where a Query object is expected, and a Query object
Undefined == [defined |-> FALSE, entries |-> <<>>]
Obj(entries) == [defined |-> TRUE, entries |-> entries]

\* `undefined` where a string is expected, and a string
NoString == [given |-> FALSE, str |-> ""]
Str(s) == [given |-> TRUE, str |-> s]

\* x || {} , x = '' defaults
OrEmptyObject(q) == IF q.defined THEN q ELSE Obj(<<>>)
OrEmptyString(s) == IF s.given THEN s.str ELSE ""

Char(s, i) == SubSeq(s, i, i)

Range(seq) == {seq[i] : i \in 1..Len(seq)}

SetMin(S) == CHOOSE x \in S : \A y \in S : x <= y

\* s.startsWith(p)
StartsWith(s, p) == Len(p) <= Len(s) /\ SubSeq(s, 1, Len(p)) = p

\* [a-zA-Z0-9]
Alnum ==
    {"a","b","c","d","e","f","g","h","i","j","k","l","m",
     "n","o","p","q","r","s","t","u","v","w","x","y","z",
     "A","B","C","D","E","F","G","H","I","J","K","L","M",
     "N","O","P","Q","R","S","T","U","V","W","X","Y","Z",
     "0","1","2","3","4","5","6","7","8","9"}

-----------------------------------------------------------------------------
(* String.prototype.indexOf / replace with a string pattern *)

\* 1-based index of the first occurrence of pat in s, 0 when there is none
\* (JavaScript: the 0-based index, -1 when there is none)
IndexOf(s, pat) ==
    LET hits == {i \in 1..(Len(s) - Len(pat) + 1) :
                    SubSeq(s, i, i + Len(pat) - 1) = pat}
    IN  IF hits = {} THEN 0 ELSE SetMin(hits)

\* The replacement text of str.replace(pattern, replacement) for a string
\* pattern (no capture groups): $$ is "$", $& the matched text, $' the text
\* after the match; any other $ is literal.  (The fourth pattern, $ followed
\* by a grave accent for the text before the match, needs a character a TLA+
\* string cannot hold; no input of the model contains it.)
RECURSIVE GetSubstitution(_, _, _, _)
GetSubstitution(rep, i, matched, after) ==
    IF i > Len(rep) THEN ""
    ELSE IF Char(rep, i) = "$" /\ i < Len(rep) /\ Char(rep, i + 1) = "$"
         THEN "$" \o GetSubstitution(rep, i + 2, matched, after)
    ELSE IF Char(rep, i) = "$" /\ i < Len(rep) /\ Char(rep, i + 1) = "&"
         THEN matched \o GetSubstitution(rep, i + 2, matched, after)
    ELSE IF Char(rep, i) = "$" /\ i < Len(rep) /\ Char(rep, i + 1) = "'"
         THEN after \o GetSubstitution(rep, i + 2, matched, after)
    ELSE Char(rep, i) \o GetSubstitution(rep, i + 1, matched, after)

\* s.replace(pat, rep) with a string pat: the first occurrence only
StringReplace(s, pat, rep) ==
    LET at == IndexOf(s, pat)
        before == SubSeq(s, 1, at - 1)
        after == SubSeq(s, at + Len(pat), Len(s))
    IN  IF at = 0 THEN s
        ELSE before \o GetSubstitution(rep, 1, pat, after) \o after

-----------------------------------------------------------------------------
(* omit, findMatches, findParams, removeParams, replaceParams *)

omit(obj, properties) ==
    Obj(SelectSeq(obj.entries, LAMBDA e : e[1] \notin Range(properties)))

\* The end of the run of [a-zA-Z0-9] characters of str that starts at i
\* (i - 1 when str has no such character at i)
RECURSIVE AlnumRunEnd(_, _)
AlnumRunEnd(str, i) ==
    IF i <= Len(str) /\ Char(str, i) \in Alnum
    THEN AlnumRunEnd(str, i + 1)
    ELSE i - 1

\* Whether /\[([a-zA-Z0-9]+)\]/ matches str at position i
MatchesAt(str, i) ==
    /\ Char(str, i) = "["
    /\ AlnumRunEnd(str, i + 1) >= i + 1
    /\ AlnumRunEnd(str, i + 1) < Len(str)
    /\ Char(str, AlnumRunEnd(str, i + 1) + 1) = "]"

\* regex.exec with the g flag, called again and again: lastIndex is the
\* position the next search starts from; each match adds its group 1
RECURSIVE findMatches(_, _, _)
findMatches(str, lastIndex, matches) ==
    LET starts == {i \in lastIndex..Len(str) : MatchesAt(str, i)}
        at == SetMin(starts)
        end == AlnumRunEnd(str, at + 1)
    IN  IF starts = {} THEN matches
        ELSE findMatches(str, end + 2, Append(matches, SubSeq(str, at + 1, end)))

\* seq without the later occurrences of an element
RECURSIVE Uniq(_)
Uniq(seq) ==
    IF seq = <<>> THEN <<>>
    ELSE LET init == Uniq(SubSeq(seq, 1, Len(seq) - 1))
         IN  IF seq[Len(seq)] \in Range(init) THEN init
             ELSE Append(init, seq[Len(seq)])

\* A findParams that lists each name once
findParams_distinct(pathname) == Uniq(findMatches(pathname, 1, <<>>))

findParams(pathname) == findMatches(pathname, 1, <<>>)

removeParams(pathname, query) == omit(query, findParams(pathname))

RECURSIVE ReplaceEach(_, _, _)
ReplaceEach(pathname, entries, i) ==
    IF i > Len(entries) THEN pathname
    ELSE ReplaceEach(
            StringReplace(pathname, "[" \o entries[i][1] \o "]", entries[i][2]),
            entries, i + 1)

\* A replaceParams that passes over the last key of params
replaceParams_skipsLastKey(str, params) ==
    IF ~params.defined THEN str
    ELSE ReplaceEach(str, SubSeq(params.entries, 1, Len(params.entries) - 1), 1)

replaceParams(str, params) ==
    IF ~params.defined THEN str ELSE ReplaceEach(str, params.entries, 1)

-----------------------------------------------------------------------------
(* url.format({pathname, query}) and querystring.stringify *)

\* The characters querystring's escape leaves as they are
Unreserved == Alnum \cup {"-", "_", ".", "!", "~", "*", "'", "(", ")"}

PercentCode(c) ==
    CASE c = " " -> "%20"
      [] c = "#" -> "%23"
      [] c = "$" -> "%24"
      [] c = "%" -> "%25"
      [] c = "&" -> "%26"
      [] c = "+" -> "%2B"
      [] c = "," -> "%2C"
      [] c = "/" -> "%2F"
      [] c = ":" -> "%3A"
      [] c = ";" -> "%3B"
      [] c = "=" -> "%3D"
      [] c = "?" -> "%3F"
      [] c = "@" -> "%40"
      [] c = "[" -> "%5B"
      [] c = "]" -> "%5D"

RECURSIVE QsEscape(_, _)
QsEscape(s, i) ==
    IF i > Len(s) THEN ""
    ELSE (IF Char(s, i) \in Unreserved THEN Char(s, i) ELSE PercentCode(Char(s, i)))
         \o QsEscape(s, i + 1)

RECURSIVE QsStringify(_, _)
QsStringify(entries, i) ==
    IF i > Len(entries) THEN ""
    ELSE (IF i > 1 THEN "&" ELSE "")
         \o QsEscape(entries[i][1], 1) \o "=" \o QsEscape(entries[i][2], 1)
         \o QsStringify(entries, i + 1)

\* url.format escapes the "#" and "?" of the pathname
RECURSIVE EscapePathname(_, _)
EscapePathname(s, i) ==
    IF i > Len(s) THEN ""
    ELSE (IF Char(s, i) \in {"#", "?"} THEN PercentCode(Char(s, i)) ELSE Char(s, i))
         \o EscapePathname(s, i + 1)

UrlFormat(pathname, query) ==
    LET qs == QsStringify(query.entries, 1)
    IN  EscapePathname(pathname, 1) \o (IF qs = "" THEN "" ELSE "?" \o qs)

routeToString(r, route) ==
    LET query == OrEmptyObject(route.query)
        basePath == OrEmptyString(r.basePath)
    IN  UrlFormat(basePath \o replaceParams(route.pathname, query),
                  removeParams(route.pathname, query))

-----------------------------------------------------------------------------
(* RouteOptions: `undefined`, or {shallow: b} *)

NoOptions == [given |-> FALSE, shallow |-> FALSE]
Shallow(b) == [given |-> TRUE, shallow |-> b]

-----------------------------------------------------------------------------
(* createMockRouter and the routers of the model *)

\* A mock router whose asPath carries its basePath
createMockRouter_prefixesBasePath(o) ==
    [kind |-> "mock",
     pathname |-> o.pathname,
     isFallback |-> FALSE,
     basePath |-> Str(OrEmptyString(o.basePath)),
     query |-> OrEmptyObject(o.query),
     asPath |-> routeToString([basePath |-> o.basePath],
                              [pathname |-> o.pathname, query |-> OrEmptyObject(o.query)]),
     route |-> o.pathname]

\* The mock's events field (an EventEmitter nothing dispatches on) is left out.
createMockRouter(o) ==
    LET pathname == o.pathname
        query == OrEmptyObject(o.query)
        basePath == OrEmptyString(o.basePath)
    IN  [kind |-> "mock",
         pathname |-> pathname,
         isFallback |-> FALSE,
         basePath |-> Str(basePath),
         query |-> query,
         asPath |-> routeToString([basePath |-> Str("")],
                                  [pathname |-> pathname, query |-> query]),
         route |-> pathname]

\* The router RouterProvider takes from next/router.  Next.js's router is not
\* part of this repository: the model gives it the route state of the mock made
\* from the same options and lets its push and replace resolve later, to either
\* boolean; its route state is held fixed.
HostRouter(o) == [createMockRouter(o) EXCEPT !.kind = "host"]

\* The mock's methods: what each returns, and the router it leaves behind
\* A mock push that takes the first argument as the new concrete path
push_navigates(r, args) ==
    [router |-> IF Len(args) > 0 THEN [r EXCEPT !.asPath = args[1]] ELSE r,
     returned |-> "Promise<true>"]

push(r, args) == [router |-> r, returned |-> "Promise<true>"]
replace(r, args) == [router |-> r, returned |-> "Promise<true>"]
prefetch(r, args) == [router |-> r, returned |-> "Promise<undefined>"]
noop(r, args) == [router |-> r, returned |-> "undefined"]

\* What the promise router[type](...) returns has settled to when the call returns
CallOutcome(r, type, args) ==
    IF r.kind = "mock"
    THEN (IF type = "push" THEN push(r, args) ELSE replace(r, args)).returned
    ELSE "Promise<pending>"

-----------------------------------------------------------------------------
(* navigate, pushRoute, replaceRoute *)

\* navigate with the parameters left in the concrete descriptor's query
navigate_keepsParams(route, type, opts) ==
    [requests |->
        << [method |-> type,
            args |-> << [pathname |-> route.pathname, query |-> route.query],
                        [pathname |-> replaceParams(route.pathname, route.query),
                         query |-> OrEmptyObject(route.query)],
                        opts >>] >>,
     shouldScroll |-> IndexOf(route.pathname, "#") > 0,
     route |-> route]

\* navigate delivering the two descriptors in two capability calls
navigate_twoCalls(route, type, opts) ==
    [requests |->
        << [method |-> type,
            args |-> << [pathname |-> route.pathname, query |-> route.query], opts >>],
           [method |-> type,
            args |-> << [pathname |-> route.pathname, query |-> route.query],
                        [pathname |-> replaceParams(route.pathname, route.query),
                         query |-> omit(OrEmptyObject(route.query),
                                        findParams(route.pathname))],
                        opts >>] >>,
     shouldScroll |-> IndexOf(route.pathname, "#") > 0,
     route |-> route]

\* navigate whose omit deletes the parameters from the query object it is given
navigate_stripsInput(route, type, opts) ==
    LET stripped == [pathname |-> route.pathname,
                     query |-> IF route.query.defined
                               THEN omit(route.query, findParams(route.pathname))
                               ELSE route.query]
    IN  [requests |->
            << [method |-> type,
                args |-> << [pathname |-> route.pathname, query |-> stripped.query],
                            [pathname |-> replaceParams(route.pathname, route.query),
                             query |-> omit(OrEmptyObject(route.query),
                                            findParams(route.pathname))],
                            opts >>] >>,
         shouldScroll |-> IndexOf(route.pathname, "#") > 0,
         route |-> stripped]

\* navigate up to its await: the capability calls it makes, in order,
\* shouldScroll, and the route object as the call leaves it (navigate only
\* reads route, and omit copies the kept keys into a new object)
navigate(route, type, opts) ==
    LET pathname == route.pathname
        query == route.query
        queryWithoutParams == omit(OrEmptyObject(query), findParams(pathname))
        shouldScroll == IndexOf(pathname, "#") > 0
    IN  [requests |->
            << [method |-> type,
                args |-> << [pathname |-> pathname, query |-> query],
                            [pathname |-> replaceParams(pathname, query),
                             query |-> queryWithoutParams],
                            opts >>] >>,
         shouldScroll |-> shouldScroll,
         route |-> route]

\* navigate turning a false outcome into a rejection
navigateResumed_rejectsFalse(nav, success) ==
    [nav EXCEPT
        !.pc = "done",
        !.effects = nav.effects \o
            (IF success = "Promise<true>" /\ nav.shouldScroll
             THEN <<"window.scrollTo(0, 0)", "document.body.focus()">>
             ELSE <<>>),
        !.result = IF success = "Promise<false>" THEN "Promise<rejected>" ELSE success]

\* navigate resetting the scroll whatever the outcome
navigateResumed_scrollsOnFailure(nav, success) ==
    [nav EXCEPT
        !.pc = "done",
        !.effects = nav.effects \o
            (IF nav.shouldScroll
             THEN <<"window.scrollTo(0, 0)", "document.body.focus()">>
             ELSE <<>>),
        !.result = success]

\* navigate after its await, resumed with the value the promise settled to
navigateResumed(nav, success) ==
    [nav EXCEPT
        !.pc = "done",
        !.effects = nav.effects \o
            (IF success = "Promise<true>" /\ nav.shouldScroll
             THEN <<"window.scrollTo(0, 0)", "document.body.focus()">>
             ELSE <<>>),
        !.result = success]

pushRoute(route, opts) == navigate(route, "push", opts)

replaceRoute(route, opts) == navigate(route, "replace", opts)

\* The state after one activation `started` (of pushRoute or replaceRoute) has
\* run to its await: its requests have reached the capability, and the
\* activation waits for the promise of the last one.
Started(st, started, route, type, opts, via) ==
    LET id == Len(st.navs) + 1
        new == [k \in 1..Len(started.requests) |->
                  [method |-> started.requests[k].method,
                   args |-> started.requests[k].args,
                   outcome |-> CallOutcome(router, started.requests[k].method,
                                           started.requests[k].args),
                   nav |-> id]]
    IN  [navs |-> Append(st.navs,
                    [route |-> route, type |-> type, options |-> opts, via |-> via,
                     input |-> started.route,
                     shouldScroll |-> started.shouldScroll,
                     pc |-> "awaiting",
                     call |-> Len(st.calls) + Len(new),
                     result |-> "Promise<pending>",
                     effects |-> <<>>]),
         calls |-> st.calls \o new]

-----------------------------------------------------------------------------
(* wantsNewTab, createClickHandler, createLink *)

\* A click event e: nodeName and target are currentTarget.nodeName and
\* currentTarget.getAttribute('target') (NoString for null); which is
\* nativeEvent.which, 0 standing for an event without a nativeEvent.

\* wantsNewTab without the shift key
wantsNewTab_ignoresShift(e) ==
    IF e.target.given /\ e.target.str # "" /\ e.target.str # "_self"
    THEN TRUE
    ELSE IF e.nodeName = "A" /\ (e.metaKey \/ e.ctrlKey \/ e.which = 2)
    THEN TRUE
    ELSE FALSE

wantsNewTab(e) ==
    IF e.target.given /\ e.target.str # "" /\ e.target.str # "_self"
    THEN TRUE
    ELSE IF e.nodeName = "A" /\
            (e.metaKey \/ e.ctrlKey \/ e.shiftKey \/ (e.which # 0 /\ e.which = 2))
    THEN TRUE
    ELSE FALSE

\* The closure createClickHandler returns: the route and options it holds
createClickHandler(route, opts) == [route |-> route, options |-> opts]

\* A handler that navigates before it prevents the default
onClick_pushesFirst(h, e) ==
    IF wantsNewTab(e) THEN <<>>
    ELSE << [op |-> "pushRoute", route |-> h.route, options |-> h.options],
            [op |-> "preventDefault", route |-> h.route, options |-> NoOptions] >>

\* The body of that closure, called with the event e: what it does, in order
onClick(h, e) ==
    IF wantsNewTab(e) THEN <<>>
    ELSE << [op |-> "preventDefault", route |-> h.route, options |-> NoOptions],
            [op |-> "pushRoute", route |-> h.route, options |-> h.options] >>

\* A Link that is active whenever the current template starts with its pathname
createLink_activeOnPrefix(r, route, opts) ==
    [route |-> route,
     isActive |-> StartsWith(r.route, route.pathname),
     push |-> [route |-> route, options |-> opts],
     replace |-> [route |-> route, options |-> opts],
     onClick |-> createClickHandler(route, NoOptions),
     href |-> routeToString(r, route)]

\* The Link: push and replace are closures over (route, options), onClick the
\* closure createClickHandler(router, route) returns
createLink(r, route, opts) ==
    [route |-> route,
     isActive |-> r.route = route.pathname,
     push |-> [route |-> route, options |-> opts],
     replace |-> [route |-> route, options |-> opts],
     onClick |-> createClickHandler(route, NoOptions),
     href |-> routeToString(r, route)]

\* The state after the handler's steps from the i-th on have run
RECURSIVE RunSteps(_, _, _)
RunSteps(st, steps, i) ==
    IF i > Len(steps) THEN st
    ELSE IF steps[i].op = "pushRoute"
    THEN RunSteps(Started(st, pushRoute(steps[i].route, steps[i].options),
                          steps[i].route, "push", steps[i].options, "onClick"),
                  steps, i + 1)
    ELSE RunSteps(st, steps, i + 1)

-----------------------------------------------------------------------------
(* Inputs of the navigation specification *)

NavRoutes ==
    { [pathname |-> "/u/[id]", query |-> Obj(<< <<"id", "1">>, <<"tab", "x">> >>)],
      [pathname |-> "/p#h", query |-> Undefined],
      [pathname |-> "/[a]/[b]#h", query |-> Obj(<< <<"b", "2">>, <<"c", "3">> >>)] }

NavOptions == {NoOptions, Shallow(TRUE)}

NavRouterOptions ==
    { [pathname |-> "/", query |-> Undefined, basePath |-> NoString, asPath |-> NoString],
      [pathname |-> "/u/[id]", query |-> Obj(<< <<"id", "1">> >>),
       basePath |-> Str("/b"), asPath |-> NoString] }

NoHandler == [via |-> "none", route |-> [pathname |-> "/", query |-> Undefined],
              options |-> NoOptions]

NoEvent == [nodeName |-> "A", target |-> NoString, metaKey |-> FALSE,
            ctrlKey |-> FALSE, shiftKey |-> FALSE, which |-> 0]

NoClick == [active |-> FALSE, e |-> NoEvent, steps |-> <<>>, returned |-> FALSE,
            navsBefore |-> 0, callsBefore |-> 0]

NoRoute == [pathname |-> "", query |-> Undefined]

\* No hook or helper has been called directly
NoOut == [op |-> "", route |-> NoRoute, routeGiven |-> FALSE, key |-> "",
          options |-> NoOptions, basePath |-> NoString,
          threw |-> FALSE, error |-> "",
          str |-> NoString, bool |-> FALSE, seq |-> <<>>, queried |-> FALSE]

-----------------------------------------------------------------------------
(* The navigation specification: pushRoute and replaceRoute on a router *)

Init ==
    /\ options \in NavRouterOptions
    /\ router \in {createMockRouter(options), HostRouter(options)}
    /\ navs = <<>>
    /\ calls = <<>>
    /\ handler = NoHandler
    /\ click = NoClick
    /\ nclicks = 0
    /\ direct = <<>>
    /\ provided = TRUE
    /\ out = NoOut

PushRoute(route, opts) ==
    /\ Len(navs) < MaxNavs
    /\ LET st == Started([navs |-> navs, calls |-> calls],
                         pushRoute(route, opts), route, "push", opts, "pushRoute")
       IN  navs' = st.navs /\ calls' = st.calls
    /\ UNCHANGED <<options, router, handler, click, nclicks, direct, provided, out>>

ReplaceRoute(route, opts) ==
    /\ Len(navs) < MaxNavs
    /\ LET st == Started([navs |-> navs, calls |-> calls],
                         replaceRoute(route, opts), route, "replace", opts, "replaceRoute")
       IN  navs' = st.navs /\ calls' = st.calls
    /\ UNCHANGED <<options, router, handler, click, nclicks, direct, provided, out>>

\* The host router settles the promise of one of its calls
CapabilitySettle(i, b) ==
    /\ i \in 1..Len(calls)
    /\ calls[i].outcome = "Promise<pending>"
    /\ click.active = FALSE
    /\ calls' = [calls EXCEPT ![i].outcome = IF b THEN "Promise<true>" ELSE "Promise<false>"]
    /\ UNCHANGED <<options, router, navs, handler, click, nclicks, direct, provided, out>>

\* An activation of navigate resumes once the promise it awaits has settled
NavigateResume(n) ==
    /\ n \in 1..Len(navs)
    /\ navs[n].pc = "awaiting"
    /\ click.active = FALSE
    /\ calls[navs[n].call].outcome # "Promise<pending>"
    /\ navs' = [navs EXCEPT ![n] = navigateResumed(navs[n], calls[navs[n].call].outcome)]
    /\ UNCHANGED <<options, router, calls, handler, click, nclicks, direct, provided, out>>

Next ==
    \/ \E route \in NavRoutes, opts \in NavOptions : PushRoute(route, opts)
    \/ \E route \in NavRoutes, opts \in NavOptions : ReplaceRoute(route, opts)
    \/ \E i \in 1..Len(calls), b \in BOOLEAN : CapabilitySettle(i, b)
    \/ \E n \in 1..Len(navs) : NavigateResume(n)

Spec == Init /\ [][Next]_vars

-----------------------------------------------------------------------------
(* Claims about the navigation adapter, checked under Spec *)

\* The residual query as the claims state it: the route's query (an empty
\* mapping when absent) minus every key findParams returns for the pathname
ResidualQuery(route) ==
    LET params == findParams(route.pathname)
    IN  Obj(SelectSeq(OrEmptyObject(route.query).entries,
                      LAMBDA e : \A k \in 1..Len(params) : params[k] # e[1]))

MethodOf(via) == IF via \in {"replaceRoute", "link.replace"} THEN "replace" ELSE "push"

ContainsHash(s) == \E i \in 1..Len(s) : Char(s, i) = "#"

CallsOf(n) == {i \in 1..Len(calls) : calls[i].nav = n}

\* C1: every pushRoute(router, route, options) calls router.push, and every
\* replaceRoute calls router.replace, with exactly three arguments in this
\* order: the templated descriptor {pathname: route.pathname, query:
\* route.query} (the query as given), the concrete descriptor {pathname:
\* replaceParams(route.pathname, route.query), query: route.query minus the
\* keys findParams(route.pathname) returns, empty when route.query is absent},
\* and options unchanged.
C1_DualDescriptorCall ==
    \A n \in 1..Len(navs) :
        /\ navs[n].call \in 1..Len(calls)
        /\ LET c == calls[navs[n].call]
               route == navs[n].route
           IN  /\ c.nav = n
               /\ c.method = MethodOf(navs[n].via)
               /\ Len(c.args) = 3
               /\ c.args[1] = [pathname |-> route.pathname, query |-> route.query]
               /\ c.args[2] = [pathname |-> replaceParams(route.pathname, route.query),
                               query |-> ResidualQuery(route)]
               /\ c.args[3] = navs[n].options

\* C1 witness: pushRoute of /u/[id] with {id, tab} and {shallow: true} has
\* reached router.push with /u/1 and {tab}, and a replaceRoute of a route
\* without a query has reached router.replace with an empty residual query.
C1_Witness ==
    /\ \E i \in 1..Len(calls) :
        /\ calls[i].method = "push"
        /\ navs[calls[i].nav].via = "pushRoute"
        /\ calls[i].args = << [pathname |-> "/u/[id]",
                               query |-> Obj(<< <<"id", "1">>, <<"tab", "x">> >>)],
                              [pathname |-> "/u/1",
                               query |-> Obj(<< <<"tab", "x">> >>)],
                              Shallow(TRUE) >>
    /\ \E i \in 1..Len(calls) :
        /\ calls[i].method = "replace"
        /\ navs[calls[i].nav].via = "replaceRoute"
        /\ calls[i].args = << [pathname |-> "/p#h", query |-> Undefined],
                              [pathname |-> "/p#h", query |-> Obj(<<>>)],
                              NoOptions >>

\* C2: one pushRoute call makes exactly one call of the capability's push and
\* none of replace, one replaceRoute call exactly one call of replace and none
\* of push; the two descriptors always travel in that one call, and neither
\* operation calls prefetch.
C2_OneCallPerNavigation ==
    /\ Len(calls) = Len(navs)
    /\ \A n \in 1..Len(navs) :
        /\ Cardinality(CallsOf(n)) = 1
        /\ \A i \in CallsOf(n) :
            /\ calls[i].method = MethodOf(navs[n].via)
            /\ Len(calls[i].args) = 3
            /\ calls[i].args[1].pathname = navs[n].route.pathname
            /\ calls[i].args[2].pathname =
                   replaceParams(navs[n].route.pathname, navs[n].route.query)
    /\ \A i \in 1..Len(calls) : calls[i].method \in {"push", "replace"}

\* C2 witness: a pushRoute and a replaceRoute have both run to their end
C2_Witness ==
    /\ \E n \in 1..Len(navs) : navs[n].via = "pushRoute" /\ navs[n].pc = "done"
    /\ \E n \in 1..Len(navs) : navs[n].via = "replaceRoute" /\ navs[n].pc = "done"
    /\ Len(calls) = 2

\* C3: the value pushRoute / replaceRoute resolves to is the boolean the
\* capability's push / replace resolved to; on false the call resolves to
\* false and is not rejected.
C3_OutcomeReturnedUnchanged ==
    \A n \in 1..Len(navs) :
        /\ navs[n].pc = "done" =>
              /\ navs[n].result = calls[navs[n].call].outcome
              /\ navs[n].result \in {"Promise<true>", "Promise<false>"}
        /\ navs[n].pc = "awaiting" => navs[n].result = "Promise<pending>"

\* C3 witness: a navigation whose capability call resolved to false has
\* resolved (to false), and one whose call resolved to true has resolved
C3_Witness ==
    /\ \E n \in 1..Len(navs) :
        /\ navs[n].pc = "done"
        /\ calls[navs[n].call].outcome = "Promise<false>"
    /\ \E n \in 1..Len(navs) :
        /\ navs[n].pc = "done"
        /\ calls[navs[n].call].outcome = "Promise<true>"

\* C4: the scroll reset (scroll to the origin, then focus the body) happens
\* exactly when the capability outcome is true and route.pathname contains
\* "#"; never before the capability call has resolved, never on false, and at
\* most once per navigate call.
C4_ScrollResetCondition ==
    \A n \in 1..Len(navs) :
        /\ navs[n].effects \in {<<>>, <<"window.scrollTo(0, 0)", "document.body.focus()">>}
        /\ navs[n].pc = "awaiting" => navs[n].effects = <<>>
        /\ navs[n].effects # <<>> => calls[navs[n].call].outcome = "Promise<true>"
        /\ navs[n].pc = "done" =>
              (navs[n].effects # <<>>
                  <=> /\ calls[navs[n].call].outcome = "Promise<true>"
                      /\ ContainsHash(navs[n].route.pathname))

\* C4 witness: a finished navigation to a "#" route that succeeded and has
\* reset the scroll, and a finished one to a "#" route that failed and has not
C4_Witness ==
    /\ \E n \in 1..Len(navs) :
        /\ navs[n].pc = "done"
        /\ navs[n].effects = <<"window.scrollTo(0, 0)", "document.body.focus()">>
    /\ \E n \in 1..Len(navs) :
        /\ ContainsHash(navs[n].route.pathname)
        /\ navs[n].pc = "done"
        /\ navs[n].result = "Promise<false>"
        /\ navs[n].effects = <<>>

-----------------------------------------------------------------------------
(* The mock router specification: createMockRouter with any options, then  *)
(* direct calls of the router's methods                                    *)

MockPathnames == {"/", "/r/[uuid]", "/p#h", "/b/[a]"}

MockQueries ==
    { Undefined,
      Obj(<<>>),
      Obj(<< <<"uuid", "1">>, <<"hash", "12345">> >>),
      Obj(<< <<"a", "x y">> >>) }

MockOptions ==
    [pathname : MockPathnames,
     query : MockQueries,
     basePath : {NoString, Str(""), Str("/b")},
     asPath : {NoString, Str("/x")}]

DirectArgs == { <<"/blah">>, <<"/users/[id]", "/users/1">> }

InitMock ==
    /\ options \in MockOptions
    /\ router = createMockRouter(options)
    /\ navs = <<>>
    /\ calls = <<>>
    /\ handler = NoHandler
    /\ click = NoClick
    /\ nclicks = 0
    /\ direct = <<>>
    /\ provided = TRUE
    /\ out = NoOut

\* router[method](...args), called by the application or a test
DirectCall(method, args, did) ==
    /\ Len(direct) < MaxDirect
    /\ router' = did.router
    /\ direct' = Append(direct, [method |-> method, args |-> args,
                                 returned |-> did.returned])
    /\ UNCHANGED <<options, navs, calls, handler, click, nclicks, provided, out>>

CallPush(args) == DirectCall("push", args, push(router, args))
CallReplace(args) == DirectCall("replace", args, replace(router, args))
CallPrefetch(args) == DirectCall("prefetch", args, prefetch(router, args))
CallBack == DirectCall("back", <<>>, noop(router, <<>>))
CallBeforePopState(args) == DirectCall("beforePopState", args, noop(router, args))
CallReload == DirectCall("reload", <<>>, noop(router, <<>>))

NextMock ==
    \/ \E args \in DirectArgs : CallPush(args)
    \/ \E args \in DirectArgs : CallReplace(args)
    \/ \E args \in DirectArgs : CallPrefetch(args)
    \/ CallBack
    \/ \E args \in DirectArgs : CallBeforePopState(args)
    \/ CallReload

SpecMock == InitMock /\ [][NextMock]_vars

\* C5: a router built by createMockRouter is static: after any sequence of
\* push, replace, prefetch, back, beforePopState and reload calls its asPath,
\* query, route, pathname, basePath and isFallback are those of construction;
\* every push and replace resolves to true, every prefetch with no value.
C5_MockRouterStatic ==
    /\ router.asPath = createMockRouter(options).asPath
    /\ router.query = createMockRouter(options).query
    /\ router.route = createMockRouter(options).route
    /\ router.pathname = createMockRouter(options).pathname
    /\ router.basePath = createMockRouter(options).basePath
    /\ router.isFallback = createMockRouter(options).isFallback
    /\ \A i \in 1..Len(direct) :
        /\ direct[i].method \in {"push", "replace"} => direct[i].returned = "Promise<true>"
        /\ direct[i].method = "prefetch" => direct[i].returned = "Promise<undefined>"

\* C5 witness: a push with two arguments and then a prefetch have been made
C5_Witness ==
    /\ Len(direct) = 2
    /\ direct[1].method = "push"
    /\ direct[1].args = <<"/users/[id]", "/users/1">>
    /\ direct[2].method = "prefetch"

\* C6: without an asPath option, the router made for pathname, query and
\* basePath has route = pathname, query = the given query (empty when absent)
\* and asPath = routeToString({basePath: ''}, {pathname, query}): the supplied
\* basePath is not in front of it.
C6_MockAsPathIgnoresBasePath ==
    ~options.asPath.given =>
        /\ router.route = options.pathname
        /\ router.query = OrEmptyObject(options.query)
        /\ router.asPath = routeToString([basePath |-> Str("")],
                               [pathname |-> options.pathname, query |-> options.query])
        /\ OrEmptyString(options.basePath) # "" =>
              /\ router.asPath # routeToString([basePath |-> options.basePath],
                                    [pathname |-> options.pathname, query |-> options.query])
              /\ router.basePath = options.basePath

\* C6 witness: the router made for /r/[uuid], {uuid: '1', hash: '12345'} and
\* the base path /b has asPath /r/1?hash=12345
C6_Witness ==
    /\ ~options.asPath.given
    /\ options.basePath = Str("/b")
    /\ options.pathname = "/r/[uuid]"
    /\ router.route = "/r/[uuid]"
    /\ router.asPath = "/r/1?hash=12345"

\* C7: when createMockRouter is given an asPath option, the router's asPath is
\* that value; asPath is computed only when no asPath option is supplied.
C7_AsPathOverride ==
    options.asPath.given => router.asPath = options.asPath.str

-----------------------------------------------------------------------------
(* The click specification: a click handler, made by createClickHandler or *)
(* taken from a Link, receives click events                                *)

ClickRoutes ==
    { [pathname |-> "/u/[id]", query |-> Obj(<< <<"id", "1">>, <<"tab", "x">> >>)],
      [pathname |-> "/p#h", query |-> Undefined] }

Handlers ==
    [via : {"createClickHandler", "createLink"},
     route : ClickRoutes,
     options : NavOptions]

ClickEvents ==
    [nodeName : {"A", "BUTTON"},
     target : {NoString, Str(""), Str("_self"), Str("_blank")},
     metaKey : BOOLEAN,
     ctrlKey : BOOLEAN,
     shiftKey : BOOLEAN,
     which : {0, 1, 2}]

InitClick ==
    /\ options \in NavRouterOptions
    /\ router \in {createMockRouter(options), HostRouter(options)}
    /\ navs = <<>>
    /\ calls = <<>>
    /\ handler \in Handlers
    /\ click = NoClick
    /\ nclicks = 0
    /\ direct = <<>>
    /\ provided = TRUE
    /\ out = NoOut

\* The handler under test
TheHandler ==
    IF handler.via = "createLink"
    THEN createLink(router, handler.route, handler.options).onClick
    ELSE createClickHandler(handler.route, handler.options)

\* The browser dispatches the click event e to the handler, which runs to its
\* return
Click(e) ==
    /\ click.active = FALSE
    /\ nclicks < MaxClicks
    /\ LET steps == onClick(TheHandler, e)
           st == RunSteps([navs |-> navs, calls |-> calls], steps, 1)
       IN  /\ click' = [active |-> TRUE, e |-> e, steps |-> steps, returned |-> TRUE,
                        navsBefore |-> Len(navs), callsBefore |-> Len(calls)]
           /\ navs' = st.navs
           /\ calls' = st.calls
    /\ nclicks' = nclicks + 1
    /\ UNCHANGED <<options, router, handler, direct, provided, out>>

\* The dispatch of the event ends
EndDispatch ==
    /\ click.active
    /\ click' = NoClick
    /\ UNCHANGED <<options, router, navs, calls, handler, nclicks, direct, provided, out>>

NextClick ==
    \/ \E e \in ClickEvents : Click(e)
    \/ EndDispatch
    \/ \E i \in 1..Len(calls), b \in BOOLEAN : CapabilitySettle(i, b)
    \/ \E n \in 1..Len(navs) : NavigateResume(n)

SpecClick == InitClick /\ [][NextClick]_vars

Modified(e) == e.metaKey \/ e.ctrlKey \/ e.shiftKey \/ e.which = 2

PreventDefaults(steps) == SelectSeq(steps, LAMBDA x : x.op = "preventDefault")

\* Neither preventDefault nor push was called for the click being dispatched
NothingDone ==
    /\ click.steps = <<>>
    /\ Len(navs) = click.navsBefore
    /\ Len(calls) = click.callsBefore

\* C8 as stated: on any element, a click whose target attribute is set to a
\* value other than '_self', or that has metaKey, ctrlKey or shiftKey set or
\* is a middle click, makes the handler call neither preventDefault nor push.
C8_ModifiedClickOnAnyElement ==
    (click.active /\
        ((click.e.target.given /\ click.e.target.str # "_self") \/ Modified(click.e)))
    => NothingDone

\* C8 as amended: a click whose target attribute is a non-empty value other
\* than '_self' (on any element), or a click on an anchor (nodeName 'A') that
\* has metaKey, ctrlKey or shiftKey set or is a middle click, makes the handler
\* call neither preventDefault nor push.
C8_ModifiedClickOnAnchor ==
    (click.active /\
        \/ click.e.target.given /\ click.e.target.str \notin {"", "_self"}
        \/ click.e.nodeName = "A" /\ Modified(click.e))
    => NothingDone

\* C8 witness: a shift-click on an anchor with no target attribute was left to
\* the browser
C8_Witness ==
    /\ click.active
    /\ click.e.nodeName = "A"
    /\ click.e.target = NoString
    /\ click.e.shiftKey /\ ~click.e.metaKey /\ ~click.e.ctrlKey /\ click.e.which = 1
    /\ NothingDone

\* The click being dispatched is an unmodified primary click on an element
\* whose target attribute is absent or '_self'
PlainClick ==
    /\ click.active
    /\ ~Modified(click.e)
    /\ click.e.target \in {NoString, Str("_self")}

\* C9: for a click with no modifier key, not a middle click, and a target
\* attribute absent or '_self', the handler made by createClickHandler(router,
\* route, options) calls preventDefault exactly once, before push is invoked,
\* and causes exactly one push call carrying the descriptors of route and the
\* given options; it returns while the navigation still awaits its outcome.
C9_PlainClickNavigates ==
    (PlainClick /\ handler.via = "createClickHandler") =>
        /\ Len(click.steps) = 2
        /\ click.steps[1].op = "preventDefault"
        /\ click.steps[2].op = "pushRoute"
        /\ Len(PreventDefaults(click.steps)) = 1
        /\ Len(navs) = click.navsBefore + 1
        /\ Len(calls) = click.callsBefore + 1
        /\ calls[Len(calls)].method = "push"
        /\ calls[Len(calls)].nav = Len(navs)
        /\ calls[Len(calls)].args =
              << [pathname |-> handler.route.pathname, query |-> handler.route.query],
                 [pathname |-> replaceParams(handler.route.pathname, handler.route.query),
                  query |-> ResidualQuery(handler.route)],
                 handler.options >>
        /\ click.returned
        /\ navs[Len(navs)].pc = "awaiting"
        /\ navs[Len(navs)].result = "Promise<pending>"

\* C9 witness: the handler made with {shallow: true} has returned from a plain
\* click on a button while the host router has not settled the push
C9_Witness ==
    /\ PlainClick
    /\ handler.via = "createClickHandler"
    /\ handler.options = Shallow(TRUE)
    /\ click.e.nodeName = "BUTTON"
    /\ click.returned
    /\ Len(calls) = click.callsBefore + 1
    /\ calls[Len(calls)].outcome = "Promise<pending>"

\* C10: the onClick of createLink(router, route, options), fired by an
\* unmodified primary click, calls push with the same third argument as the
\* link's own push() trigger and as createClickHandler(router, route, options)
\* would: the options given to createLink.
C10_LinkClickKeepsOptions ==
    (PlainClick /\ handler.via = "createLink") =>
        /\ Len(calls) = click.callsBefore + 1
        /\ calls[Len(calls)].args[3] =
              createLink(router, handler.route, handler.options).push.options
        /\ calls[Len(calls)].args[3] =
              createClickHandler(handler.route, handler.options).options
        /\ calls[Len(calls)].args[3] = handler.options

-----------------------------------------------------------------------------
(* The hooks: useRouter, useQuery, useRouteParam, usePrefetch *)

\* useContext(RouterContext): the router RouterProvider supplies, or null.
\* With bound FALSE the value is null and the router field stands for nothing.
RouterContext == [bound |-> provided, router |-> router]

getQuery(r, key) ==
    LET at == {i \in 1..Len(r.query.entries) : r.query.entries[i][1] = key}
    IN  IF at = {} THEN NoString ELSE Str(r.query.entries[SetMin(at)][2])

\* A useRouter that hands out its API without a router
useRouter_silent(ctx) == [threw |-> FALSE, error |-> "", router |-> ctx.router]

\* The router the returned API closes over, unless useRouter threw
useRouter(ctx) ==
    IF ~ctx.bound
    THEN [threw |-> TRUE, error |-> "Missing <RouterContext>", router |-> ctx.router]
    ELSE [threw |-> FALSE, error |-> "", router |-> ctx.router]

\* A call routeToString(...args): with fewer than two arguments the parameter
\* `route` is undefined and destructuring it throws a TypeError
routeToStringCall(args) ==
    IF Len(args) < 2
    THEN [threw |-> TRUE, error |-> "TypeError", value |-> NoString]
    ELSE [threw |-> FALSE, error |-> "", value |-> Str(routeToString(args[1], args[2]))]

\* The createHref and isRouteActive of the API useRouter returns for router r
createHref(r, route) == routeToStringCall(<<route>>)

isRouteActive(r, route) == StartsWith(r.route, route.pathname)

useQuery(ctx, key) ==
    LET h == useRouter(ctx)
    IN  IF h.threw
        THEN [threw |-> TRUE, error |-> h.error, value |-> NoString, queried |-> FALSE]
        ELSE [threw |-> FALSE, error |-> "", value |-> getQuery(h.router, key),
              queried |-> TRUE]

\* (the second message has a typographic apostrophe in the source)
useRouteParam(ctx, key) ==
    LET h == useRouter(ctx)
        params == findParams(h.router.route)
        value == getQuery(h.router, key)
    IN  IF h.threw
        THEN [threw |-> TRUE, error |-> h.error, value |-> NoString, queried |-> FALSE]
        ELSE IF key \notin Range(params)
        THEN [threw |-> TRUE,
              error |-> "The current page route does not contain the parameter \""
                        \o key \o "\". Did you mispell it?",
              value |-> NoString, queried |-> FALSE]
        ELSE IF ~value.given \/ value.str = ""
        THEN [threw |-> TRUE,
              error |-> "Route parameter \"" \o key \o "\" doesn't exist",
              value |-> NoString, queried |-> TRUE]
        ELSE [threw |-> FALSE, error |-> "", value |-> value, queried |-> TRUE]

\* usePrefetch(route) and the effect it registers: the calls the router receives
usePrefetch(ctx, routeGiven, route) ==
    LET h == useRouter(ctx)
    IN  IF h.threw
        THEN [threw |-> TRUE, error |-> h.error, requests |-> <<>>]
        ELSE [threw |-> FALSE, error |-> "",
              requests |-> IF routeGiven
                           THEN << [method |-> "prefetch", args |-> <<route.pathname>>] >>
                           ELSE <<>>]

-----------------------------------------------------------------------------
(* The hook specification: one call of a hook, or of a function of the API *)
(* useRouter returns, by a component with or without a RouterProvider      *)

HookRouterOptions ==
    { [pathname |-> "/", query |-> Undefined, basePath |-> NoString, asPath |-> NoString],
      [pathname |-> "/u/[id]", query |-> Obj(<< <<"id", "1">>, <<"tab", "x">> >>),
       basePath |-> Str("/b"), asPath |-> NoString],
      [pathname |-> "/u/[id]/[n]", query |-> Obj(<< <<"id", "1">>, <<"n", "">> >>),
       basePath |-> NoString, asPath |-> NoString] }

HookQueries == {Undefined, Obj(<< <<"id", "1">> >>)}

HookRoutes ==
    [pathname : {"/", "/u", "/u/[id]", "/u/1"}, query : HookQueries]

HookKeys == {"id", "n", "tab", "x"}

InitHook ==
    /\ options \in HookRouterOptions
    /\ router \in {createMockRouter(options), HostRouter(options)}
    /\ provided \in BOOLEAN
    /\ navs = <<>>
    /\ calls = <<>>
    /\ handler = NoHandler
    /\ click = NoClick
    /\ nclicks = 0
    /\ direct = <<>>
    /\ out = NoOut

\* A call that threw
Thrown(op, t) == [NoOut EXCEPT !.op = op, !.threw = TRUE, !.error = t.error]

UseRouter ==
    /\ out = NoOut
    /\ LET h == useRouter(RouterContext)
       IN  out' = IF h.threw THEN Thrown("useRouter", h)
                  ELSE [NoOut EXCEPT !.op = "useRouter"]
    /\ UNCHANGED <<options, router, navs, calls, handler, click, nclicks, direct,
                   provided>>

\* useRouter().createLink(route, opts)
HookCreateLink(route, opts) ==
    /\ out = NoOut
    /\ LET h == useRouter(RouterContext)
           link == createLink(h.router, route, opts)
       IN  out' = [(IF h.threw THEN Thrown("createLink", h)
                    ELSE [NoOut EXCEPT !.op = "createLink",
                                       !.bool = link.isActive,
                                       !.str = Str(link.href)])
                   EXCEPT !.route = route, !.routeGiven = TRUE, !.options = opts]
    /\ UNCHANGED <<options, router, navs, calls, handler, click, nclicks, direct,
                   provided>>

\* useRouter().createHref(route)
HookCreateHref(route) ==
    /\ out = NoOut
    /\ LET h == useRouter(RouterContext)
           href == createHref(h.router, route)
       IN  out' = [(IF h.threw THEN Thrown("createHref", h)
                    ELSE IF href.threw THEN Thrown("createHref", href)
                    ELSE [NoOut EXCEPT !.op = "createHref", !.str = href.value])
                   EXCEPT !.route = route, !.routeGiven = TRUE]
    /\ UNCHANGED <<options, router, navs, calls, handler, click, nclicks, direct,
                   provided>>

\* useRouter().isRouteActive(route)
HookIsRouteActive(route) ==
    /\ out = NoOut
    /\ LET h == useRouter(RouterContext)
       IN  out' = [(IF h.threw THEN Thrown("isRouteActive", h)
                    ELSE [NoOut EXCEPT !.op = "isRouteActive",
                                       !.bool = isRouteActive(h.router, route)])
                   EXCEPT !.route = route, !.routeGiven = TRUE]
    /\ UNCHANGED <<options, router, navs, calls, handler, click, nclicks, direct,
                   provided>>

UseQuery(key) ==
    /\ out = NoOut
    /\ LET q == useQuery(RouterContext, key)
       IN  out' = [(IF q.threw THEN Thrown("useQuery", q)
                    ELSE [NoOut EXCEPT !.op = "useQuery", !.str = q.value])
                   EXCEPT !.key = key, !.queried = q.queried]
    /\ UNCHANGED <<options, router, navs, calls, handler, click, nclicks, direct,
                   provided>>

UseRouteParam(key) ==
    /\ out = NoOut
    /\ LET q == useRouteParam(RouterContext, key)
       IN  out' = [(IF q.threw THEN Thrown("useRouteParam", q)
                    ELSE [NoOut EXCEPT !.op = "useRouteParam", !.str = q.value])
                   EXCEPT !.key = key, !.queried = q.queried]
    /\ UNCHANGED <<options, router, navs, calls, handler, click, nclicks, direct,
                   provided>>

\* The component renders with usePrefetch(route) and its effect runs
UsePrefetch(routeGiven, route) ==
    /\ out = NoOut
    /\ LET p == usePrefetch(RouterContext, routeGiven, route)
       IN  /\ out' = [(IF p.threw THEN Thrown("usePrefetch", p)
                       ELSE [NoOut EXCEPT !.op = "usePrefetch"])
                      EXCEPT !.route = route, !.routeGiven = routeGiven]
           /\ calls' = calls \o
                [k \in 1..Len(p.requests) |->
                    [method |-> p.requests[k].method,
                     args |-> p.requests[k].args,
                     outcome |-> IF router.kind = "mock"
                                 THEN prefetch(router, p.requests[k].args).returned
                                 ELSE "Promise<pending>",
                     nav |-> 0]]
    /\ UNCHANGED <<options, router, navs, handler, click, nclicks, direct, provided>>

NextHook ==
    \/ UseRouter
    \/ \E route \in HookRoutes, opts \in NavOptions : HookCreateLink(route, opts)
    \/ \E route \in HookRoutes : HookCreateHref(route)
    \/ \E route \in HookRoutes : HookIsRouteActive(route)
    \/ \E key \in HookKeys : UseQuery(key)
    \/ \E key \in HookKeys : UseRouteParam(key)
    \/ \E route \in HookRoutes : UsePrefetch(TRUE, route)
    \/ UsePrefetch(FALSE, NoRoute)

SpecHook == InitHook /\ [][NextHook]_vars

-----------------------------------------------------------------------------
(* Claims about the link's isActive and the hooks *)

\* C11: createLink(router, route).isActive is true exactly when router.route,
\* the current route template, is string-equal to route.pathname: it is false
\* when only the concrete path equals route.pathname or when the template only
\* starts with route.pathname, and the route's query plays no part.
C11_IsActiveExactTemplate ==
    (out.op = "createLink" /\ ~out.threw) =>
        /\ out.bool <=> (router.route = out.route.pathname)
        /\ (out.route.pathname = router.asPath /\ router.asPath # router.route)
              => ~out.bool
        /\ (StartsWith(router.route, out.route.pathname)
               /\ router.route # out.route.pathname) => ~out.bool
        /\ \A q \in HookQueries :
              createLink(router, [pathname |-> out.route.pathname, query |-> q],
                         out.options).isActive = out.bool

\* C11 witness: a link for "/u" made while the current template is "/u/[id]",
\* which starts with "/u", is not active
C11_Witness ==
    /\ out.op = "createLink"
    /\ ~out.threw
    /\ router.route = "/u/[id]"
    /\ out.route.pathname = "/u"
    /\ out.route.query # Undefined
    /\ StartsWith(router.route, out.route.pathname)
    /\ ~out.bool

\* C16: when no router is bound in the RouterContext, useRouter throws
\* 'Missing <RouterContext>' at once, and so do useQuery, useRouteParam,
\* usePrefetch and every call through the API of useRouter: no push, replace
\* or prefetch reaches a router, no query is read and nothing is returned.
C16_HooksFailFastWithoutRouter ==
    (out.op # "" /\ ~provided) =>
        /\ out.threw
        /\ out.error = "Missing <RouterContext>"
        /\ calls = <<>>
        /\ navs = <<>>
        /\ ~out.queried
        /\ out.str = NoString

\* C16 witness: usePrefetch(route) in a component without a provider has thrown
C16_Witness ==
    /\ ~provided
    /\ out.op = "usePrefetch"
    /\ out.routeGiven
    /\ out.threw
    /\ calls = <<>>

\* C17: for a bound router, the createHref of useRouter returns for every
\* route the href routeToString(router, route) gives, which is also
\* createLink(router, route).href, and does not throw.
C17_CreateHrefReturnsHref ==
    (out.op = "createHref" /\ provided) =>
        /\ ~out.threw
        /\ out.str = Str(routeToString(router, out.route))
        /\ out.str = Str(createLink(router, out.route, NoOptions).href)

\* C18: for a bound router, the isRouteActive of useRouter agrees with
\* createLink(router, route).isActive for every route: true exactly when
\* router.route is string-equal to route.pathname.
C18_IsRouteActiveAgreesWithLink ==
    (out.op = "isRouteActive" /\ provided) =>
        /\ ~out.threw
        /\ out.bool = createLink(router, out.route, NoOptions).isActive
        /\ out.bool <=> (router.route = out.route.pathname)

-----------------------------------------------------------------------------
(* The helper specification: one direct call of findParams, replaceParams  *)
(* or routeToString, on templates and mappings built from small alphabets  *)

\* pieces a template is made of, and the mapping entries, in one behaviour
MaxSegs == 3
MaxEntries == 2

\* The strings made of at most n of the pieces segs
RECURSIVE Templates(_, _)
Templates(segs, n) ==
    IF n = 0 THEN {""}
    ELSE LET shorter == Templates(segs, n - 1)
         IN  shorter \cup {t \o s : t \in shorter, s \in segs}

\* Templates for findParams: tokens, a bracketed name that is not
\* alphanumeric, stray brackets, a hash
ParseTemplates == Templates({"/", "[a]", "[b]", "[.s]", "[", "]", "#"}, MaxSegs)

\* Templates for replaceParams
PathTemplates == Templates({"/", "[a]", "[b]", "[.s]", "[", "]"}, MaxSegs)

\* Pathnames for routeToString
RoutePathnames == Templates({"/p", "[a]", "#h"}, MaxSegs)

ParamKeys == {"a", "b", ".s"}
ParamValues == {"1", "b", "[b]", "$&"}

\* The entry lists of at most n entries: own-property order, no key twice
RECURSIVE EntryLists(_)
EntryLists(n) ==
    IF n = 0 THEN {<<>>}
    ELSE LET shorter == EntryLists(n - 1)
         IN  shorter \cup
             UNION { {Append(es, <<k, val>>) :
                         k \in ParamKeys \ {es[i][1] : i \in 1..Len(es)},
                         val \in ParamValues} : es \in shorter }

HelperQueries == {Undefined} \cup {Obj(es) : es \in EntryLists(MaxEntries)}

HelperBasePaths == {NoString, Str("/b")}

InitHelpers ==
    /\ options = [pathname |-> "/", query |-> Undefined, basePath |-> NoString,
                  asPath |-> NoString]
    /\ router = createMockRouter(options)
    /\ provided = TRUE
    /\ navs = <<>>
    /\ calls = <<>>
    /\ handler = NoHandler
    /\ click = NoClick
    /\ nclicks = 0
    /\ direct = <<>>
    /\ out = NoOut

\* findParams(t)
CallFindParams ==
    /\ out = NoOut
    /\ \E t \in ParseTemplates :
          out' = [NoOut EXCEPT !.op = "findParams",
                               !.route = [pathname |-> t, query |-> Undefined],
                               !.seq = findParams(t)]
    /\ UNCHANGED <<options, router, navs, calls, handler, click, nclicks, direct,
                   provided>>

\* replaceParams(t, v)
CallReplaceParams ==
    /\ out = NoOut
    /\ \E t \in PathTemplates, v \in HelperQueries :
          out' = [NoOut EXCEPT !.op = "replaceParams",
                               !.route = [pathname |-> t, query |-> v],
                               !.str = Str(replaceParams(t, v))]
    /\ UNCHANGED <<options, router, navs, calls, handler, click, nclicks, direct,
                   provided>>

\* routeToString({basePath}, {pathname, query})
CallRouteToString ==
    /\ out = NoOut
    /\ \E b \in HelperBasePaths, t \in RoutePathnames, q \in HelperQueries :
          out' = [NoOut EXCEPT !.op = "routeToString",
                               !.basePath = b,
                               !.route = [pathname |-> t, query |-> q],
                               !.str = Str(routeToString([basePath |-> b],
                                               [pathname |-> t, query |-> q]))]
    /\ UNCHANGED <<options, router, navs, calls, handler, click, nclicks, direct,
                   provided>>

NextHelpers ==
    \/ CallFindParams
    \/ CallReplaceParams
    \/ CallRouteToString

SpecHelpers == InitHelpers /\ [][NextHelpers]_vars

-----------------------------------------------------------------------------
(* Claims about findParams, replaceParams and routeToString *)

\* The positions of t where a bracketed alphanumeric token starts, and where
\* the token that starts at i ends
TokenStarts(t) ==
    {i \in 1..Len(t) :
        /\ Char(t, i) = "["
        /\ \E j \in (i + 2)..Len(t) :
              /\ Char(t, j) = "]"
              /\ \A k \in (i + 1)..(j - 1) : Char(t, k) \in Alnum}

TokenEnd(t, i) == SetMin({j \in (i + 1)..Len(t) : Char(t, j) = "]"})

\* The names of the tokens of t, one for each occurrence, from left to right
TokenNames(t) ==
    LET starts == TokenStarts(t)
        nth(k) == CHOOSE i \in starts : Cardinality({x \in starts : x < i}) = k - 1
    IN  [k \in 1..Cardinality(starts) |->
            SubSeq(t, nth(k) + 1, TokenEnd(t, nth(k)) - 1)]

\* C12 as stated: findParams(t) lists the names of the bracketed alphanumeric
\* tokens of t from left to right, each distinct name once even when t repeats
\* a token, and is empty when t has no token.
C12_FindParamsDistinctNames ==
    (out.op = "findParams") =>
        /\ out.seq = Uniq(TokenNames(out.route.pathname))
        /\ \A i, j \in 1..Len(out.seq) : i # j => out.seq[i] # out.seq[j]

\* C12 amended: findParams(t) lists the names of the bracketed alphanumeric
\* tokens of t from left to right, one entry for each occurrence (a token t
\* repeats is listed each time), and is empty when t has no token.
C12_FindParamsEveryOccurrence ==
    (out.op = "findParams") =>
        /\ out.seq = TokenNames(out.route.pathname)
        /\ (TokenStarts(out.route.pathname) = {}) => out.seq = <<>>

\* C12 witness: findParams of a template that repeats [a] around a bracketed
\* name that is not alphanumeric has listed a twice
C12_Witness ==
    /\ out.op = "findParams"
    /\ out.route.pathname = "[a][.s][a]"
    /\ out.seq = <<"a", "a">>

\* The keys of a mapping (none when it is absent)
KeysOf(v) == {v.entries[i][1] : i \in 1..Len(v.entries)}

\* No token of a key of v is left in the string s
NoSuppliedTokenIn(s, v) == \A n \in Range(findParams(s)) : n \notin KeysOf(v)

\* Every "[" of t starts a bracketed alphanumeric token, and no two tokens of
\* t have the same name
EveryBracketOpensToken(t) ==
    \A i \in 1..Len(t) : Char(t, i) = "[" => i \in TokenStarts(t)

NoRepeatedToken(t) ==
    \A i, j \in 1..Len(TokenNames(t)) :
        i # j => TokenNames(t)[i] # TokenNames(t)[j]

\* No value of v contains "[" or "$"
PlainValues(v) ==
    \A e \in Range(v.entries) :
        \A i \in 1..Len(e[2]) : Char(e[2], i) \notin {"[", "$"}

\* C13 as stated: for all templates t and mappings v, of any keys and values,
\* findParams(replaceParams(t, v)) contains no name that is a key of v.
C13_NoSuppliedTokenRemains ==
    (out.op = "replaceParams") => NoSuppliedTokenIn(out.str.str, out.route.query)

\* C13 amended: for every template t in which every "[" starts a bracketed
\* alphanumeric token and no token name occurs twice, and every mapping v
\* whose values contain neither "[" nor "$", findParams(replaceParams(t, v))
\* contains no name that is a key of v.
C13_NoSuppliedTokenRemainsPlain ==
    (/\ out.op = "replaceParams"
     /\ EveryBracketOpensToken(out.route.pathname)
     /\ NoRepeatedToken(out.route.pathname)
     /\ PlainValues(out.route.query)) =>
        NoSuppliedTokenIn(out.str.str, out.route.query)

\* C13 witness: both tokens of "[a]/[b]" have been replaced, by values of
\* which one is the other's name
C13_Witness ==
    /\ out.op = "replaceParams"
    /\ out.route.pathname = "[a]/[b]"
    /\ out.route.query = Obj(<< <<"b", "1">>, <<"a", "b">> >>)
    /\ EveryBracketOpensToken(out.route.pathname)
    /\ NoRepeatedToken(out.route.pathname)
    /\ PlainValues(out.route.query)
    /\ out.str = Str("b/1")

\* s with the first occurrence of pat replaced by rep, character for character
LiteralReplace(s, pat, rep) ==
    LET at == IndexOf(s, pat)
    IN  IF at = 0 THEN s
        ELSE SubSeq(s, 1, at - 1) \o rep \o SubSeq(s, at + Len(pat), Len(s))

ValueOf(v, key) ==
    v.entries[SetMin({i \in 1..Len(v.entries) : v.entries[i][1] = key})][2]

\* The reference substitution: for each name of names from the i-th on that is
\* a key of v, the first occurrence of [name] replaced by v[name]
RECURSIVE SubstituteNames(_, _, _, _)
SubstituteNames(s, names, v, i) ==
    IF i > Len(names) THEN s
    ELSE SubstituteNames(
            IF names[i] \in KeysOf(v)
            THEN LiteralReplace(s, "[" \o names[i] \o "]", ValueOf(v, names[i]))
            ELSE s,
            names, v, i + 1)

ReferenceSubstitution(t, v) ==
    IF ~v.defined THEN t ELSE SubstituteNames(t, Uniq(TokenNames(t)), v, 1)

\* C14: replaceParams(t, v) equals the reference substitution for every
\* template t and mapping v: t when v is absent; otherwise, for each name of
\* findParams(t) that is a key of v, the first occurrence of [name] replaced by
\* v[name] character for character, every other token left as it is, and keys
\* of v that name no token changing nothing.
C14_ReplaceParamsIsReference ==
    (out.op = "replaceParams") =>
        out.str = Str(ReferenceSubstitution(out.route.pathname, out.route.query))

\* The entries of q whose key names no token of t
ResidualEntries(t, q) ==
    SelectSeq(q.entries, LAMBDA e : e[1] \notin Range(TokenNames(t)))

\* C15: routeToString returns basePath (empty when unset) followed by
\* replaceParams(route.pathname, route.query), followed by "?" and the
\* "&"-joined encoded key=value pairs of the residual query only when the
\* residual query is not empty; no key of findParams(route.pathname) is in the
\* query string; and for a route with no parameter, no query and an empty
\* basePath the href is route.pathname itself, for any pathname string.
C15_RouteToStringFormat ==
    (out.op = "routeToString") =>
        LET t == out.route.pathname
            q == OrEmptyObject(out.route.query)
            residual == ResidualEntries(t, q)
        IN  /\ out.str = Str(OrEmptyString(out.basePath) \o replaceParams(t, q)
                             \o (IF residual = <<>> THEN ""
                                 ELSE "?" \o QsStringify(residual, 1)))
            /\ (TokenNames(t) = <<>> /\ q.entries = <<>>
                   /\ OrEmptyString(out.basePath) = "") => out.str = Str(t)

\* The orders the entries es can be inserted in
Reorderings(es) ==
    {[i \in 1..Len(es) |-> es[f[i]]] :
        f \in {g \in [1..Len(es) -> 1..Len(es)] :
                  \A i, j \in 1..Len(es) : i # j => g[i] # g[j]}}

\* C19: the insertion order of the keys of a mapping is irrelevant to
\* substitution: for every template t and mappings v1, v2 with the same
\* key/value pairs in different insertion orders,
\* replaceParams(t, v1) = replaceParams(t, v2).
C19_KeyOrderIrrelevant ==
    (out.op = "replaceParams" /\ out.route.query.defined) =>
        \A es \in Reorderings(out.route.query.entries) :
            replaceParams(out.route.pathname, Obj(es)) = out.str.str

\* Whether the name k matches [A-Za-z0-9]+
AlnumName(k) == k # "" /\ \A i \in 1..Len(k) : Char(k, i) \in Alnum

\* C20: replaceParams(t, v) changes only the bracketed tokens whose name
\* matches [A-Za-z0-9]+: the entries of v whose key is not such a name change
\* nothing, so a bracketed name that is not alphanumeric is left as it is even
\* when v has a key equal to the text between the brackets.
C20_OnlyAlnumTokensReplaced ==
    (out.op = "replaceParams" /\ out.route.query.defined) =>
        /\ out.str.str =
              replaceParams(out.route.pathname,
                  Obj(SelectSeq(out.route.query.entries,
                                LAMBDA e : AlnumName(e[1]))))
        /\ (\A e \in Range(out.route.query.entries) : ~AlnumName(e[1]))
              => out.str.str = out.route.pathname

-----------------------------------------------------------------------------
(* Claim about navigations in flight together, checked under Spec *)

ScrollReset == <<"window.scrollTo(0, 0)", "document.body.focus()">>

\* What every activation holds at every moment: a capability call of its own,
\* made from its own route and options; its own outcome and its own scroll
\* reset; the route object it was given, as given
C21_OwnState ==
    \A n \in 1..Len(navs) :
        /\ navs[n].call \in 1..Len(calls)
        /\ calls[navs[n].call].nav = n
        /\ \A m \in 1..Len(navs) : m # n => navs[m].call # navs[n].call
        /\ calls[navs[n].call].method = navs[n].type
        /\ calls[navs[n].call].args =
              << [pathname |-> navs[n].route.pathname, query |-> navs[n].route.query],
                 [pathname |-> replaceParams(navs[n].route.pathname, navs[n].route.query),
                  query |-> ResidualQuery(navs[n].route)],
                 navs[n].options >>
        /\ navs[n].pc = "awaiting" =>
              navs[n].result = "Promise<pending>" /\ navs[n].effects = <<>>
        /\ navs[n].pc = "done" =>
              /\ navs[n].result = calls[navs[n].call].outcome
              /\ navs[n].effects =
                    IF calls[navs[n].call].outcome = "Promise<true>"
                          /\ ContainsHash(navs[n].route.pathname)
                    THEN ScrollReset ELSE <<>>
        /\ navs[n].input = navs[n].route

\* What every step leaves alone: an activation that resumes changes its own
\* pc, result and effects and nothing of another activation or of a call; an
\* outcome that settles changes one call and no activation; a new navigation
\* changes no earlier activation and no earlier call
C21_Step ==
    /\ Len(navs') >= Len(navs)
    /\ Len(calls') >= Len(calls)
    /\ \A n \in 1..Len(navs) :
          navs'[n] # navs[n] =>
              /\ calls' = calls
              /\ Len(navs') = Len(navs)
              /\ \A m \in 1..Len(navs) : m # n => navs'[m] = navs[m]
              /\ navs[n].pc = "awaiting"
              /\ navs'[n] = [navs[n] EXCEPT
                                !.pc = "done",
                                !.result = calls[navs[n].call].outcome,
                                !.effects = navs'[n].effects]
    /\ \A i \in 1..Len(calls) :
          calls'[i] # calls[i] =>
              /\ navs' = navs
              /\ Len(calls') = Len(calls)
              /\ \A j \in 1..Len(calls) : j # i => calls'[j] = calls[j]
              /\ calls'[i] = [calls[i] EXCEPT !.outcome = calls'[i].outcome]
    /\ Len(navs') > Len(navs) =>
          /\ Len(navs') = Len(navs) + 1
          /\ Len(calls') = Len(calls) + 1
          /\ calls'[Len(calls')].nav = Len(navs')
          /\ navs'[Len(navs')].call = Len(calls')

\* C21: when two or more pushRoute / replaceRoute calls are in flight on one
\* router and their outcomes settle in any order, each call resolves to the
\* outcome of its own capability call, passes descriptors made from its own
\* route and options only, and resets the scroll according to its own outcome
\* and its own pathname only; no call reads or writes what belongs to another,
\* and the route given and its query are left as they were.
C21_ConcurrentCallsIndependent == []C21_OwnState /\ [][C21_Step]_vars

\* C21 witness: a replaceRoute of "/p#h" started second has resolved to true
\* and reset the scroll, while the pushRoute of "/[a]/[b]#h" with {shallow:
\* true} started first still waits for its own pending push
C21_Witness ==
    /\ Len(navs) = 2
    /\ navs[1].via = "pushRoute"
    /\ navs[1].route.pathname = "/[a]/[b]#h"
    /\ navs[1].options = Shallow(TRUE)
    /\ navs[1].pc = "awaiting"
    /\ calls[navs[1].call].outcome = "Promise<pending>"
    /\ navs[1].result = "Promise<pending>"
    /\ navs[1].effects = <<>>
    /\ navs[2].via = "replaceRoute"
    /\ navs[2].route.pathname = "/p#h"
    /\ navs[2].options = NoOptions
    /\ navs[2].pc = "done"
    /\ navs[2].result = "Promise<true>"
    /\ navs[2].effects = ScrollReset

====
